---- MODULE Spec2Model ----
(***************************************************************************)
(* Model of app.py: the two-pass loudness normalisation pipeline           *)
(* clean_video = ffprobe_json ; pick_audio_stream ; measure_loudnorm ;     *)
(* apply.                                                                  *)
(*                                                                         *)
(* Text is modelled as a sequence of tokens.  Filter strings and the       *)
(* stdout of ffprobe are sequences of strings; the stderr of a tool is a   *)
(* sequence of tokens, each a tuple: <<"{">>, <<"}">>, <<"log">> (a piece  *)
(* of text without braces) or <<key, value>> (one "key" : "value" member   *)
(* of a JSON object).                                                      *)
(***************************************************************************)
EXTENDS Integers, Sequences, FiniteSets, TLC

\* ---------------------------------------------------------------- bounds
\* longest stream list ffprobe reports
MaxStreams == 2
\* longest run of log tokens before and after the loudnorm report
MaxNoise == 1

\* ---------------------------------------------------------------- values
\* Python's None, where a stream entry is expected
NoStream == [index |-> -1, codec_type |-> "None"]

\* a local that is not yet bound
NoMeta == [kind |-> "None", has_streams |-> FALSE, streams |-> <<>>]

NoProcess == [returncode |-> 0, stdout |-> <<>>, stderr |-> <<>>]

NoStats ==
  [input_i |-> "", input_tp |-> "", input_lra |-> "", input_thresh |-> "",
   target_offset |-> ""]

\* the absence of a raised exception
NoError == [cls |-> "None", prefix |-> "", text |-> <<>>]

\* codec_type values of a stream entry
CodecTypes == {"video", "audio", "subtitle"}

\* --target-i values, in tenths of a LUFS (a float with one decimal)
Targets == {-160, -235}

\* exit codes of a child process: success and failure
ReturnCodes == {0, 1}

\* the fields of LoudnormStats, in declaration order
StatFields == <<"input_i", "input_tp", "input_lra", "input_thresh", "target_offset">>

StatFieldSet == {StatFields[i] : i \in 1..Len(StatFields)}

\* two reports ffmpeg may print; all ten values differ
ReportA ==
  [input_i |-> "-23.1", input_tp |-> "-2.0", input_lra |-> "7.3",
   input_thresh |-> "-33.5", target_offset |-> "1.2"]

ReportB ==
  [input_i |-> "-30.0", input_tp |-> "-5.5", input_lra |-> "3.1",
   input_thresh |-> "-40.2", target_offset |-> "0.4"]

\* all sequences over S of length at most n
SeqsUpTo(S, n) == UNION {[1..k -> S] : k \in 0..n}

\* ---------------------------------------------------------------- text
Digit(d) ==
  CASE d = 0 -> "0" [] d = 1 -> "1" [] d = 2 -> "2" [] d = 3 -> "3" [] d = 4 -> "4"
    [] d = 5 -> "5" [] d = 6 -> "6" [] d = 7 -> "7" [] d = 8 -> "8" [] d = 9 -> "9"

RECURSIVE NatStr(_)
NatStr(n) == IF n < 10 THEN <<Digit(n)>> ELSE NatStr(n \div 10) \o <<Digit(n % 10)>>

Abs(x) == IF x < 0 THEN -x ELSE x

\* f"{target_i}" of a float given in tenths: sign, integer part, ".", one decimal
FloatStr(t) ==
  (IF t < 0 THEN <<"-">> ELSE <<>>) \o NatStr(Abs(t) \div 10) \o <<".">>
    \o <<Digit(Abs(t) % 10)>>

\* sep.join(parts)
RECURSIVE Join(_, _)
Join(parts, sep) ==
  IF Len(parts) = 0 THEN <<>>
  ELSE IF Len(parts) = 1 THEN <<parts[1]>>
  ELSE <<parts[1], sep>> \o Join(Tail(parts), sep)

\* ---------------------------------------------------------------- ffprobe
\* the JSON document ffprobe prints for a list of codec types
ProbeDoc(types) == <<"{", "streams", "[">> \o types \o <<"]", "}">>

\* what ffprobe may write to stdout: a document, a document without the streams
\* key, a truncated document, a top-level array, text that is no JSON, nothing
ProbeStdouts ==
  {ProbeDoc(ts) : ts \in SeqsUpTo(CodecTypes, MaxStreams)}
    \cup {<<"{", "}">>, <<"[", "]">>, <<"garbage">>, <<>>,
          <<"{", "streams", "[", "audio">>}

\* what ffprobe or the apply pass may write to stderr
ToolStderrs == {<<>>, << <<"log">> >>, << <<"log">>, <<"}">> >>}

\* json.loads(p.stdout): the parsed value, or "JSONDecodeError"
JsonLoadsProbe(out) ==
  IF out = <<"[", "]">> THEN [kind |-> "list", has_streams |-> FALSE, streams |-> <<>>]
  ELSE IF out = <<"{", "}">> THEN [kind |-> "dict", has_streams |-> FALSE, streams |-> <<>>]
  ELSE IF /\ Len(out) >= 5
          /\ SubSeq(out, 1, 3) = <<"{", "streams", "[">>
          /\ SubSeq(out, Len(out) - 1, Len(out)) = <<"]", "}">>
          /\ \A i \in 4..(Len(out) - 2) : out[i] \in CodecTypes
       THEN [kind |-> "dict", has_streams |-> TRUE,
             streams |-> [i \in 1..(Len(out) - 5) |->
                            [index |-> i - 1, codec_type |-> out[i + 3]]]]
  ELSE [kind |-> "JSONDecodeError", has_streams |-> FALSE, streams |-> <<>>]

\* meta.get("streams", [])
StreamsOf(meta) == IF meta.has_streams THEN meta.streams ELSE <<>>

\* a loop that keeps the last audio entry instead of returning at the first
RECURSIVE PickLastFrom(_, _)
PickLastFrom(streams, i) ==
  IF i > Len(streams) THEN NoStream
  ELSE IF PickLastFrom(streams, i + 1) # NoStream THEN PickLastFrom(streams, i + 1)
  ELSE IF streams[i].codec_type = "audio" THEN streams[i]
  ELSE NoStream

\* the for loop of pick_audio_stream from position i on
RECURSIVE PickFrom(_, _)
PickFrom(streams, i) ==
  IF i > Len(streams) THEN NoStream
  ELSE IF streams[i].codec_type = "audio" THEN streams[i]
  ELSE PickFrom(streams, i + 1)

\* a pick that takes the first stream whatever its codec_type
pick_first_stream(meta) ==
  IF Len(StreamsOf(meta)) = 0 THEN NoStream ELSE StreamsOf(meta)[1]

pick_audio_stream(meta) == PickFrom(StreamsOf(meta), 1)

\* ---------------------------------------------------------------- errors
\* a message that keeps the first piece of stderr only
RuntimeErrorFirstLine(prefix, p) ==
  [cls |-> "RuntimeError", prefix |-> prefix,
   text |-> IF Len(p.stderr) = 0 THEN <<>> ELSE <<p.stderr[1]>>]

\* raise RuntimeError(f"<prefix>{p.stderr}")
RuntimeErrorOf(prefix, p) == [cls |-> "RuntimeError", prefix |-> prefix, text |-> p.stderr]

\* raise RuntimeError("Input has no audio stream.")
NoAudioError == [cls |-> "RuntimeError", prefix |-> "Input has no audio stream.", text |-> <<>>]

\* the exception json.loads raises on text that is no JSON
JSONDecodeError == [cls |-> "JSONDecodeError", prefix |-> "", text |-> <<>>]

\* the exception data[key] raises on a dict without key
KeyErrorOf(key) == [cls |-> "KeyError", prefix |-> key, text |-> <<>>]

\* the exception meta.get raises when meta is a list
AttributeError == [cls |-> "AttributeError", prefix |-> "get", text |-> <<>>]

\* ---------------------------------------------------------------- filters
build_base_filters ==
  Join(<<"highpass=f=90",
         "lowpass=f=8000",
         "anlmdn=s=0.00005:p=0.05",
         "agate=threshold=-35dB:ratio=2:attack=10:release=120",
         "acompressor=threshold=-18dB:ratio=3:attack=5:release=80:makeup=4",
         "alimiter=limit=0.98">>, ",")

\* the -af argument of the measure pass
MeasureAf(base, target) ==
  base \o <<",", "loudnorm=", "I=">> \o FloatStr(target)
    \o <<":", "TP=", "-1.5", ":", "LRA=", "11", ":", "print_format=", "json">>

\* loudnorm_apply with input_i and input_tp fed into each other's parameter
LoudnormApplySwapped(target, st) ==
  <<"loudnorm=", "I=">> \o FloatStr(target)
    \o <<":", "TP=", "-1.5", ":", "LRA=", "11", ":",
         "measured_I=", st.input_tp, ":", "measured_TP=", st.input_i, ":",
         "measured_LRA=", st.input_lra, ":", "measured_thresh=", st.input_thresh, ":",
         "offset=", st.target_offset, ":", "linear=", "true", ":",
         "print_format=", "summary">>

\* loudnorm_apply
LoudnormApply(target, st) ==
  <<"loudnorm=", "I=">> \o FloatStr(target)
    \o <<":", "TP=", "-1.5", ":", "LRA=", "11", ":",
         "measured_I=", st.input_i, ":", "measured_TP=", st.input_tp, ":",
         "measured_LRA=", st.input_lra, ":", "measured_thresh=", st.input_thresh, ":",
         "offset=", st.target_offset, ":", "linear=", "true", ":",
         "print_format=", "summary">>

\* an apply pass whose chain starts after the high-pass filter
ApplyAfWithoutHighpass(base, target, st) ==
  Tail(Tail(base)) \o <<",">> \o LoudnormApply(target, st)

\* the -af argument of the apply pass
ApplyAf(base, target, st) == base \o <<",">> \o LoudnormApply(target, st)

\* ---------------------------------------------------------------- measure
LBrace == <<"{">>

RBrace == <<"}">>

\* the report block ffmpeg prints for the fields in S with the values of v
RECURSIVE Members(_, _, _)
Members(S, v, i) ==
  IF i > Len(StatFields) THEN <<>>
  ELSE (IF StatFields[i] \in S THEN << <<StatFields[i], v[StatFields[i]]>> >> ELSE <<>>)
         \o Members(S, v, i + 1)

ReportBlock(S, v) == <<LBrace>> \o Members(S, v, 1) \o <<RBrace>>

\* log text around the report: pieces of text and stray braces
Noise == SeqsUpTo({<<"log">>, LBrace, RBrace}, MaxNoise)

\* no report, a report with any subset of the fields, a second complete report
Blocks ==
  {<<>>} \cup {ReportBlock(S, ReportA) : S \in SUBSET StatFieldSet}
    \cup {ReportBlock(StatFieldSet, ReportB)}

\* what the measure pass may write to stderr
MeasureStderrs == {a \o b \o c : a \in Noise, b \in Blocks, c \in Noise}

\* [\s\S]*\} matched greedily from i: the last "}" after i, 0 when there is none
RECURSIVE GreedyEnd(_, _, _)
GreedyEnd(s, i, j) ==
  IF j <= i THEN 0
  ELSE IF s[j] = RBrace THEN j
  ELSE GreedyEnd(s, i, j - 1)

\* LOUDNORM_JSON_RE.search from position i on: <<start, end>>, <<0, 0>> for None
RECURSIVE SearchFrom(_, _)
SearchFrom(s, i) ==
  IF i > Len(s) THEN <<0, 0>>
  ELSE IF s[i] = LBrace /\ GreedyEnd(s, i, Len(s)) > 0
       THEN <<i, GreedyEnd(s, i, Len(s))>>
  ELSE SearchFrom(s, i + 1)

ReSearch(s) == SearchFrom(s, 1)

\* m.group(0)
Group0(s, m) == SubSeq(s, m[1], m[2])

\* json.loads(m.group(0)): an object whose members are all "key" : "value", the
\* last member of a key wins; anything else between the braces is no JSON
JsonLoadsReport(span) ==
  IF \A i \in 2..(Len(span) - 1) : Len(span[i]) = 2
  THEN [kind |-> "dict",
        data |-> [k \in {span[i][1] : i \in 2..(Len(span) - 1)} |->
                    LET last == CHOOSE i \in 2..(Len(span) - 1) :
                                  /\ span[i][1] = k
                                  /\ \A j \in (i + 1)..(Len(span) - 1) : span[j][1] # k
                    IN  span[last][2]]]
  ELSE [kind |-> "JSONDecodeError", data |-> <<>>]

\* the first field LoudnormStats(...) reads that data lacks, 0 when none
RECURSIVE FirstMissing(_, _)
FirstMissing(data, i) ==
  IF i > Len(StatFields) THEN 0
  ELSE IF StatFields[i] \notin DOMAIN data THEN i
  ELSE FirstMissing(data, i + 1)

\* measure_loudnorm from the regex search on: the stats or the exception
ParseReport(p) ==
  LET m == ReSearch(p.stderr) IN
    IF m = <<0, 0>>
    THEN [stats |-> NoStats,
          error |-> RuntimeErrorOf("Could not parse loudnorm json from ffmpeg output:\n", p)]
    ELSE LET parsed == JsonLoadsReport(Group0(p.stderr, m)) IN
      IF parsed.kind = "JSONDecodeError"
      THEN [stats |-> NoStats, error |-> JSONDecodeError]
      ELSE IF FirstMissing(parsed.data, 1) # 0
      THEN [stats |-> NoStats,
            error |-> KeyErrorOf(StatFields[FirstMissing(parsed.data, 1)])]
      ELSE [stats |-> [input_i |-> parsed.data["input_i"],
                       input_tp |-> parsed.data["input_tp"],
                       input_lra |-> parsed.data["input_lra"],
                       input_thresh |-> parsed.data["input_thresh"],
                       target_offset |-> parsed.data["target_offset"]],
            error |-> NoError]

\* a measure pass that reads the report without testing the exit code
MeasureOutcomeUnchecked(p) == ParseReport(p)

\* measure_loudnorm after run(cmd): the stats it returns or the exception it raises
MeasureOutcome(p) ==
  IF p.returncode # 0
  THEN [stats |-> NoStats, error |-> RuntimeErrorOf("ffmpeg loudnorm measure failed:\n", p)]
  ELSE ParseReport(p)

\* ---------------------------------------------------------------- clean_video
VARIABLES
  pc,            \* the statement clean_video executes next, "done" or "failed"
  target_i,      \* the target_i argument
  p,             \* the CompletedProcess of the last call of run
  meta,          \* the local meta
  astream,       \* the local astream
  base_filters,  \* the local base_filters
  stats,         \* the local stats
  calls,         \* the child processes run so far: tool, -af argument, exit code
  error          \* the exception that left clean_video, NoError while none did

vars == <<pc, target_i, p, meta, astream, base_filters, stats, calls, error>>

\* run(cmd): the child process is spawned and waited for; one entry per call
Run(tool, af, q) ==
  Append(calls, [tool |-> tool, af |-> af, returncode |-> q.returncode])

\* a statement that is run again when it raised
AfterRetry(err, next) == IF err # NoError THEN pc ELSE next

\* where control goes after a statement: an exception propagates out of
\* clean_video, otherwise the next statement runs
After(err, next) == IF err # NoError THEN "failed" ELSE next

\* ffprobe_json after run(cmd): the exception it raises, NoError when it returns
ProbeOutcome(q) ==
  IF q.returncode # 0 THEN RuntimeErrorOf("ffprobe failed:\n", q)
  ELSE IF JsonLoadsProbe(q.stdout).kind = "JSONDecodeError" THEN JSONDecodeError
  ELSE NoError

\* the end of clean_video: the exception the apply pass raises, NoError when none
ApplyOutcome(q) ==
  IF q.returncode # 0 THEN RuntimeErrorOf("ffmpeg clean failed:\n", q) ELSE NoError

\* pick_audio_stream(meta) and the test of its result: the exception raised
PickOutcome(m) ==
  IF m.kind # "dict" THEN AttributeError
  ELSE IF pick_audio_stream(m) = NoStream THEN NoAudioError
  ELSE NoError

Init ==
  /\ pc = "probe"
  /\ target_i \in Targets
  /\ p = NoProcess
  /\ meta = NoMeta
  /\ astream = NoStream
  /\ base_filters = <<>>
  /\ stats = NoStats
  /\ calls = <<>>
  /\ error = NoError

\* meta = ffprobe_json(inp)
FfprobeJson ==
  /\ pc = "probe"
  /\ \E rc \in ReturnCodes, out \in ProbeStdouts, err \in ToolStderrs :
       LET q == [returncode |-> rc, stdout |-> out, stderr |-> err] IN
         /\ p' = q
         /\ calls' = Run("ffprobe", <<>>, q)
         /\ error' = ProbeOutcome(q)
         /\ meta' = IF ProbeOutcome(q) = NoError THEN JsonLoadsProbe(out) ELSE meta
         /\ pc' = After(ProbeOutcome(q), "pick")
  /\ UNCHANGED <<target_i, astream, base_filters, stats>>

\* astream = pick_audio_stream(meta); if astream is None: raise
PickAudio ==
  /\ pc = "pick"
  /\ error' = PickOutcome(meta)
  /\ astream' = IF meta.kind = "dict" THEN pick_audio_stream(meta) ELSE astream
  /\ pc' = After(PickOutcome(meta), "measure")
  /\ UNCHANGED <<target_i, p, meta, base_filters, stats, calls>>

\* base_filters = build_base_filters(); stats = measure_loudnorm(...)
MeasureLoudnorm ==
  /\ pc = "measure"
  /\ base_filters' = build_base_filters
  /\ \E rc \in ReturnCodes, err \in MeasureStderrs :
       LET q == [returncode |-> rc, stdout |-> <<>>, stderr |-> err] IN
         /\ p' = q
         /\ calls' = Run("measure", MeasureAf(build_base_filters, target_i), q)
         /\ error' = MeasureOutcome(q).error
         /\ stats' = MeasureOutcome(q).stats
         /\ pc' = After(MeasureOutcome(q).error, "apply")
  /\ UNCHANGED <<target_i, meta, astream>>

\* the apply pass: loudnorm_apply, af, run(cmd), the test of its exit code
Apply ==
  /\ pc = "apply"
  /\ \E rc \in ReturnCodes, err \in ToolStderrs :
       LET q == [returncode |-> rc, stdout |-> <<>>, stderr |-> err] IN
         /\ p' = q
         /\ calls' = Run("apply", ApplyAf(base_filters, target_i, stats), q)
         /\ error' = ApplyOutcome(q)
         /\ pc' = After(ApplyOutcome(q), "done")
  /\ UNCHANGED <<target_i, meta, astream, base_filters, stats>>

Next == FfprobeJson \/ PickAudio \/ MeasureLoudnorm \/ Apply

Spec == Init /\ [][Next]_vars

\* ---------------------------------------------------------------- vocabulary
\* the tool of the i-th child process was t
Invoked(t) == \E i \in 1..Len(calls) : calls[i].tool = t

CallOf(t) == calls[CHOOSE i \in 1..Len(calls) : calls[i].tool = t]

\* no entry of the stream list has codec_type "audio"
NoAudioIn(streams) == \A i \in 1..Len(streams) : streams[i].codec_type # "audio"

\* the error of the taxonomy an exception stands for: the four errors are the
\* RuntimeErrors clean_video raises, told apart by their message; any other
\* exception is outside the taxonomy and keeps its class name
ErrorKind(e) ==
  IF e.cls # "RuntimeError" THEN e.cls
  ELSE CASE e.prefix = "ffprobe failed:\n" -> "ProbeError"
         [] e.prefix = "Input has no audio stream." -> "NoAudioStreamError"
         [] e.prefix = "ffmpeg loudnorm measure failed:\n" -> "MeasurementError"
         [] e.prefix = "Could not parse loudnorm json from ffmpeg output:\n" -> "MeasurementError"
         [] e.prefix = "ffmpeg clean failed:\n" -> "EncodeError"
         [] OTHER -> "RuntimeError"

\* the pieces of s between the occurrences of sep
RECURSIVE SplitOn(_, _)
SplitOn(s, sep) ==
  IF \A i \in 1..Len(s) : s[i] # sep THEN <<s>>
  ELSE LET i == CHOOSE k \in 1..Len(s) : s[k] = sep /\ \A j \in 1..(k - 1) : s[j] # sep
       IN  <<SubSeq(s, 1, i - 1)>> \o SplitOn(SubSeq(s, i + 1, Len(s)), sep)

\* the position of the "," before the last stage of a filter argument
LastComma(af) == CHOOSE k \in 1..Len(af) : af[k] = "," /\ \A j \in (k + 1)..Len(af) : af[j] # ","

\* the filter argument up to its last stage, and the last stage
BaseChainOf(af) == SubSeq(af, 1, LastComma(af) - 1)

LastStageOf(af) == SubSeq(af, LastComma(af) + 1, Len(af))

\* the parameters of a loudnorm stage, each <<key, value tokens...>>
LoudnormParams(stage) == SplitOn(Tail(stage), ":")

\* ---------------------------------------------------------------- C1
\* C1: when the probe succeeded and the probed stream list has no audio entry
\* (empty and missing lists included), the run fails with the no-audio error and
\* neither the measure nor the apply command is invoked.
C1_NoAudioFails ==
  (/\ Invoked("ffprobe") /\ calls[1].returncode = 0
   /\ meta.kind = "dict" /\ NoAudioIn(StreamsOf(meta)))
    => /\ ~Invoked("measure") /\ ~Invoked("apply")
       /\ pc \in {"pick", "failed"}
       /\ pc = "failed" => ErrorKind(error) = "NoAudioStreamError"

C1_Witness ==
  /\ pc = "failed" /\ calls[1].returncode = 0
  /\ meta.kind = "dict" /\ Len(StreamsOf(meta)) = 2 /\ NoAudioIn(StreamsOf(meta))
  /\ ErrorKind(error) = "NoAudioStreamError"

\* ---------------------------------------------------------------- C7
\* C7: pick_audio_stream returns the entry at the lowest index whose codec_type is
\* "audio", and None exactly when no entry is audio.
C7_PicksFirstAudio ==
  (pc \notin {"probe", "pick"} /\ meta.kind = "dict") =>
    LET streams == StreamsOf(meta) IN
      /\ (astream = NoStream) <=> NoAudioIn(streams)
      /\ ~NoAudioIn(streams) =>
           \E i \in 1..Len(streams) :
             /\ astream = streams[i]
             /\ streams[i].codec_type = "audio"
             /\ \A j \in 1..(i - 1) : streams[j].codec_type # "audio"

C7_Witness ==
  /\ pc = "measure" /\ Len(StreamsOf(meta)) = 2
  /\ meta.streams[1].codec_type = "subtitle" /\ meta.streams[2].codec_type = "audio"
  /\ astream = meta.streams[2]

\* ---------------------------------------------------------------- C2
\* the text holds a "{" followed somewhere later by a "}"
HasBraceBlock(s) == \E i, j \in 1..Len(s) : i < j /\ s[i] = LBrace /\ s[j] = RBrace

FirstLBrace(s) == CHOOSE i \in 1..Len(s) : s[i] = LBrace /\ \A k \in 1..(i - 1) : s[k] # LBrace

LastRBrace(s) == CHOOSE j \in 1..Len(s) : s[j] = RBrace /\ \A k \in (j + 1)..Len(s) : s[k] # RBrace

\* the text from the first "{" to the last "}"
BraceSpan(s) == SubSeq(s, FirstLBrace(s), LastRBrace(s))

\* the span holds a member for field f
SpanHasField(span, f) == \E i \in 1..Len(span) : Len(span[i]) = 2 /\ span[i][1] = f

\* the span is a report object: only members between its braces, all five fields
IsReportObject(span) ==
  /\ \A i \in 2..(Len(span) - 1) : Len(span[i]) = 2
  /\ \A f \in StatFieldSet : SpanHasField(span, f)

\* the measure pass has just returned with exit code 0
MeasureExitedZero == Len(calls) = 2 /\ calls[2].tool = "measure" /\ p.returncode = 0

\* C2: when the measure pass exits 0 and its stderr holds no brace block, or a
\* block that lacks one of the five fields, the run fails with MeasurementError
\* and no other kind of error, and the apply pass is not performed.
C2_MissingReportIsMeasurementError ==
  (/\ MeasureExitedZero
   /\ \/ ~HasBraceBlock(p.stderr)
      \/ \E f \in StatFieldSet : ~SpanHasField(BraceSpan(p.stderr), f))
    => /\ pc = "failed"
       /\ ErrorKind(error) = "MeasurementError"
       /\ ~Invoked("apply")

\* ---------------------------------------------------------------- C3
\* the last child process exited with a non-zero code and the run has failed
LastCallFailed == Len(calls) >= 1 /\ calls[Len(calls)].returncode # 0 /\ pc = "failed"

\* the exception the code raises when tool t exits as q did
FailureOf(t, q) ==
  CASE t = "ffprobe" -> ProbeOutcome(q)
    [] t = "measure" -> MeasureOutcome(q).error
    [] t = "apply" -> ApplyOutcome(q)

ToolNames == {"ffprobe", "measure", "apply"}

StagePrefix(t) ==
  CASE t = "ffprobe" -> "ffprobe failed:\n"
    [] t = "measure" -> "ffmpeg loudnorm measure failed:\n"
    [] t = "apply" -> "ffmpeg clean failed:\n"

StageError(t) ==
  CASE t = "ffprobe" -> "ProbeError"
    [] t = "measure" -> "MeasurementError"
    [] t = "apply" -> "EncodeError"

C4_SameBaseChain ==
  Invoked("apply") =>
    LET m == CallOf("measure").af
        a == CallOf("apply").af
    IN  /\ BaseChainOf(a) = BaseChainOf(m)
        /\ Len(SplitOn(BaseChainOf(a), ",")) = 6
        /\ LastStageOf(m)[1] = "loudnorm=" /\ LastStageOf(a)[1] = "loudnorm="
        /\ m = BaseChainOf(m) \o <<",">> \o LastStageOf(m)
        /\ a = BaseChainOf(m) \o <<",">> \o LastStageOf(a)
        /\ LastStageOf(a) # LastStageOf(m)

C4_Witness ==
  /\ pc = "done" /\ Invoked("apply")
  /\ BaseChainOf(CallOf("apply").af) = BaseChainOf(CallOf("measure").af)

\* ---------------------------------------------------------------- C5
\* C5: the tools run in the order probe, measure, apply, each after the one
\* before has exited: the measure pass only after a probe that exited 0 and
\* found an audio stream, the apply pass only after a measure pass that exited 0
\* and produced all five statistics; a successful run performs exactly the three.
C5_ProbeMeasureApply ==
  /\ Len(calls) <= 3
  /\ \A i \in 1..Len(calls) : calls[i].tool = <<"ffprobe", "measure", "apply">>[i]
  /\ Invoked("measure") =>
       /\ calls[1].returncode = 0
       /\ astream # NoStream /\ astream.codec_type = "audio"
  /\ Invoked("apply") =>
       /\ calls[2].returncode = 0
       /\ \A f \in StatFieldSet : stats[f] # ""
  /\ pc = "done" => Len(calls) = 3 /\ \A i \in 1..3 : calls[i].returncode = 0

C5_Witness == pc = "done" /\ Len(calls) = 3 /\ error = NoError

\* ---------------------------------------------------------------- C6
\* the value of the member of field f in a report
ReportedValue(s, f) == s[CHOOSE i \in 1..Len(s) : Len(s[i]) = 2 /\ s[i][1] = f][2]

\* C6: the loudnorm stage of the apply pass carries exactly I=T, TP=-1.5, LRA=11,
\* measured_I=input_i, measured_TP=input_tp, measured_LRA=input_lra,
\* measured_thresh=input_thresh, offset=target_offset, linear=true and
\* print_format=summary; I, TP and LRA are those of the measure pass, and every
\* statistic is the value the report gave for its own field.
C6_ApplyParameters ==
  /\ (MeasureExitedZero /\ pc = "apply") =>
       \A f \in StatFieldSet : stats[f] = ReportedValue(BraceSpan(p.stderr), f)
  /\ Invoked("apply") =>
       LET a == LoudnormParams(LastStageOf(CallOf("apply").af))
           m == LoudnormParams(LastStageOf(CallOf("measure").af))
       IN  /\ a = << <<"I=">> \o FloatStr(target_i),
                      <<"TP=", "-1.5">>,
                      <<"LRA=", "11">>,
                      <<"measured_I=", stats.input_i>>,
                      <<"measured_TP=", stats.input_tp>>,
                      <<"measured_LRA=", stats.input_lra>>,
                      <<"measured_thresh=", stats.input_thresh>>,
                      <<"offset=", stats.target_offset>>,
                      <<"linear=", "true">>,
                      <<"print_format=", "summary">> >>
           /\ SubSeq(a, 1, 3) = SubSeq(m, 1, 3)
           /\ target_i = -160 => a[1] = <<"I=", "-", "1", "6", ".", "0">>

C6_Witness ==
  /\ Invoked("apply") /\ target_i = -160 /\ stats = ReportA
  /\ LoudnormParams(LastStageOf(CallOf("apply").af))[4] = <<"measured_I=", "-23.1">>
  /\ LoudnormParams(LastStageOf(CallOf("apply").af))[8] = <<"offset=", "1.2">>

\* ---------------------------------------------------------------- C8
\* C8: no tool is invoked twice, and a child process that exited with a non-zero
\* code is the last one of its run, which has failed.
C8_NoRetry ==
  /\ \A i, j \in 1..Len(calls) : calls[i].tool = calls[j].tool => i = j
  /\ \A i \in 1..Len(calls) :
       calls[i].returncode # 0 => i = Len(calls) /\ pc = "failed" /\ error # NoError

C8_Witness ==
  /\ pc = "failed" /\ Len(calls) = 2 /\ calls[2].returncode # 0 /\ calls[1].returncode = 0

\* ---------------------------------------------------------------- C9
\* the text is one of the JSON documents ffprobe prints, or an empty array
IsJson(out) ==
  \/ out = <<"{", "}">>
  \/ out = <<"[", "]">>
  \/ /\ Len(out) >= 5
     /\ out[1] = "{" /\ out[2] = "streams" /\ out[3] = "[" /\ out[Len(out) - 1] = "]"
     /\ out[Len(out)] = "}"
     /\ \A i \in 4..(Len(out) - 2) : out[i] \in CodecTypes

\* C9: when ffprobe exits 0 and its stdout is no JSON, the run fails with
\* ProbeError, the error of a non-zero probe exit, and neither the measure nor the
\* apply pass is performed.
C9_BadMetadataIsProbeError ==
  (Len(calls) = 1 /\ p.returncode = 0 /\ ~IsJson(p.stdout))
    => /\ pc = "failed"
       /\ ErrorKind(error) = "ProbeError"
       /\ error.cls = FailureOf("ffprobe", [p EXCEPT !.returncode = 1]).cls

\* ---------------------------------------------------------------- C10
\* C10: the report is searched as the span from the first "{" to the last "}" of
\* stderr, found exactly when a "{" is followed later by a "}"; when that span is
\* no report object the run fails with MeasurementError and the apply pass is not
\* performed, also when a complete report lies inside the span.
C10_GreedySpanIsMeasurementError ==
  MeasureExitedZero =>
    /\ (ReSearch(p.stderr) # <<0, 0>>) <=> HasBraceBlock(p.stderr)
    /\ HasBraceBlock(p.stderr) =>
         /\ Group0(p.stderr, ReSearch(p.stderr)) = BraceSpan(p.stderr)
         /\ ~IsReportObject(BraceSpan(p.stderr)) =>
              /\ pc = "failed"
              /\ ErrorKind(error) = "MeasurementError"
              /\ ~Invoked("apply")

====
